---- MODULE Spec2Model ----
(***************************************************************************)
(* Debye-scattering sweep of fast_dse: the two Python strategies of        *)
(* build_crystal/crystal_python.py (dse and dse_ultra_optimized) together  *)
(* with intensity_point / intensity_at_q.                                  *)
(*                                                                         *)
(* Numbers.  Every quantity that decides control flow or a comparison with *)
(* 0.0 (the sample count, the length of np.arange, whether a q sample or a *)
(* squared distance is exactly zero) is computed in IEEE-754 binary64 with *)
(* round-to-nearest-even, on significands held as little-endian sequences  *)
(* of 15-bit limbs.  The value of a sum of sinc terms is kept as the bag   *)
(* of its addends, so that two sums are equal as bags exactly when they    *)
(* agree up to the order of summation.                                     *)
(*                                                                         *)
(* The state variables are the caller's values; they carry names of their  *)
(* own (points, q_start, ...), so that the parameters of the operators can *)
(* keep the names the Python functions give them.  What depends on a pair  *)
(* of sites or on the parameters of a sweep only (a distance, a grid of q  *)
(* samples) is tabulated over the inputs and looked up by the operators.   *)
(***************************************************************************)
EXTENDS Integers, Sequences, FiniteSets, Bags, TLC

----------------------------------------------------------------------------
(* Natural numbers of arbitrary size: <<l1, ..., lk>> is the sum of         *)
(* l_i * LimbBase^(i-1), with lk # 0; the empty sequence is zero.           *)

LimbBits == 15
LimbBase == 8 * 8 * 8 * 8 * 8

RECURSIVE Pow2(_)
Pow2(k) == IF k = 0 THEN 1 ELSE 2 * Pow2(k - 1)

RECURSIVE BNorm(_)
BNorm(a) ==
    IF a = <<>> THEN <<>>
    ELSE IF a[Len(a)] = 0 THEN BNorm(SubSeq(a, 1, Len(a) - 1)) ELSE a

BFromInt(n) ==
    IF n = 0 THEN <<>>
    ELSE IF n < LimbBase THEN <<n>>
    ELSE IF n < LimbBase * LimbBase THEN <<n % LimbBase, n \div LimbBase>>
    ELSE <<n % LimbBase, (n \div LimbBase) % LimbBase, n \div (LimbBase * LimbBase)>>

RECURSIVE BToIntFrom(_, _)
BToIntFrom(a, i) ==
    IF i > Len(a) THEN 0 ELSE a[i] + LimbBase * BToIntFrom(a, i + 1)

BToInt(a) == BToIntFrom(a, 1)

Limb(a, i) == IF i >= 1 /\ i <= Len(a) THEN a[i] ELSE 0

RECURSIVE BCmpFrom(_, _, _)
BCmpFrom(a, b, i) ==
    IF i = 0 THEN 0
    ELSE IF Limb(a, i) > Limb(b, i) THEN 1
    ELSE IF Limb(a, i) < Limb(b, i) THEN -1
    ELSE BCmpFrom(a, b, i - 1)

BCmp(a, b) == BCmpFrom(a, b, IF Len(a) > Len(b) THEN Len(a) ELSE Len(b))

RECURSIVE BAddFrom(_, _, _, _)
BAddFrom(a, b, i, carry) ==
    IF i > Len(a) /\ i > Len(b)
    THEN (IF carry = 0 THEN <<>> ELSE <<carry>>)
    ELSE LET t == Limb(a, i) + Limb(b, i) + carry
         IN  <<t % LimbBase>> \o BAddFrom(a, b, i + 1, t \div LimbBase)

BAdd(a, b) == BAddFrom(a, b, 1, 0)

RECURSIVE BSubFrom(_, _, _, _)
BSubFrom(a, b, i, borrow) ==
    IF i > Len(a) THEN <<>>
    ELSE LET t == Limb(a, i) - Limb(b, i) - borrow
         IN  IF t < 0 THEN <<t + LimbBase>> \o BSubFrom(a, b, i + 1, 1)
                      ELSE <<t>> \o BSubFrom(a, b, i + 1, 0)

\* a - b for a >= b
BSub(a, b) == BNorm(BSubFrom(a, b, 1, 0))

RECURSIVE BMulSmallFrom(_, _, _, _)
BMulSmallFrom(a, k, i, carry) ==
    IF i > Len(a)
    THEN (IF carry = 0 THEN <<>> ELSE <<carry>>)
    ELSE LET t == a[i] * k + carry
         IN  <<t % LimbBase>> \o BMulSmallFrom(a, k, i + 1, t \div LimbBase)

\* a * k for 0 <= k < LimbBase
BMulSmall(a, k) == IF k = 0 THEN <<>> ELSE BMulSmallFrom(a, k, 1, 0)

ZeroLimbs(n) == [i \in 1..n |-> 0]

RECURSIVE BMulFrom(_, _, _)
BMulFrom(a, b, j) ==
    IF j > Len(b) THEN <<>>
    ELSE BAdd(ZeroLimbs(j - 1) \o BMulSmall(a, b[j]), BMulFrom(a, b, j + 1))

BMul(a, b) == IF a = <<>> \/ b = <<>> THEN <<>> ELSE BNorm(BMulFrom(a, b, 1))

RECURSIVE SmallBitLen(_)
SmallBitLen(n) == IF n = 0 THEN 0 ELSE 1 + SmallBitLen(n \div 2)

BBitLen(a) ==
    IF a = <<>> THEN 0 ELSE LimbBits * (Len(a) - 1) + SmallBitLen(a[Len(a)])

\* a * 2^k
BShl(a, k) ==
    IF a = <<>> THEN <<>>
    ELSE ZeroLimbs(k \div LimbBits) \o BMulSmall(a, Pow2(k % LimbBits))

\* floor(a / 2^k)
BShr(a, k) ==
    LET w == k \div LimbBits
        r == k % LimbBits
        p == Pow2(r)
        q == Pow2(LimbBits - r)
    IN  IF w >= Len(a) THEN <<>>
        ELSE BNorm([i \in 1..(Len(a) - w) |->
                      (Limb(a, i + w) \div p) + (Limb(a, i + w + 1) % p) * q])

\* bit i of a, bit 0 being the least significant
BBit(a, i) == (Limb(a, (i \div LimbBits) + 1) \div Pow2(i % LimbBits)) % 2

\* some bit of a below bit k is set
BLowNonZero(a, k) ==
    \/ \E i \in 1..Len(a) : i <= k \div LimbBits /\ a[i] # 0
    \/ Limb(a, (k \div LimbBits) + 1) % Pow2(k % LimbBits) # 0

\* the quotient digit floor(r / b) < LimbBase, for b with a top limb of at
\* least LimbBase / 2: the estimate from the top limbs is at most 2 too large
RECURSIVE BDigitFix(_, _, _)
BDigitFix(r, b, qhat) ==
    IF BCmp(BMulSmall(b, qhat), r) > 0 THEN BDigitFix(r, b, qhat - 1) ELSE qhat

BDigit(r, b) ==
    LET n   == Len(b)
        est == IF Len(r) > n THEN (r[n + 1] * LimbBase + r[n]) \div b[n]
               ELSE Limb(r, n) \div b[n]
    IN  BDigitFix(r, b, IF est > LimbBase - 1 THEN LimbBase - 1 ELSE est)

\* long division, one limb of the dividend at a time, from the top:
\* qr is <<quotient, remainder>> of the limbs above k
RECURSIVE BDivLimbs(_, _, _, _)
RECURSIVE BDivLimb(_, _, _, _, _)
RECURSIVE BDivDigit(_, _, _, _, _, _)
RECURSIVE BDivNext(_, _, _, _)

BDivLimbs(a, b, k, qr) ==
    IF k < 1 THEN qr ELSE BDivLimb(a, b, k, qr, BNorm(<<a[k]>> \o qr[2]))

\* r is the remainder so far with limb k of the dividend brought down
BDivLimb(a, b, k, qr, r) == BDivDigit(a, b, k, qr, r, BDigit(r, b))

\* d is the quotient digit of r
BDivDigit(a, b, k, qr, r, d) ==
    BDivNext(a, b, k, <<BNorm(<<d>> \o qr[1]), BSub(r, BMulSmall(b, d))>>)

BDivNext(a, b, k, nxt) ==
    IF Len(nxt[1]) >= 0 /\ Len(nxt[2]) >= 0
    THEN BDivLimbs(a, b, k - 1, nxt) ELSE nxt

\* a / b for the dividend a and the divisor b both shifted left by sh bits
BDivShifted(a, b, sh) == BDivLimbs(a, b, Len(a), <<<<>>, <<>>>>)

BUnshift(qr, sh) == <<qr[1], BShr(qr[2], sh)>>

BDivModBy(a, b, sh) == BUnshift(BDivShifted(BShl(a, sh), BShl(b, sh), sh), sh)

\* <<quotient, remainder>> of a by b, b # 0
BDivMod(a, b) == BDivModBy(a, b, LimbBits - SmallBitLen(b[Len(b)]))

----------------------------------------------------------------------------
(* Python float / numpy float64: IEEE-754 binary64.  A finite number is     *)
(* [s, m, e] with value (-1)^s * m * 2^e, where m = 0 (and s = e = 0) or m  *)
(* has exactly Precision bits.  Every operation computes the exact result   *)
(* and rounds it once, to nearest, ties to even.  The sweep parameters and  *)
(* coordinates of the model stay far from overflow and underflow.           *)

Precision == 53

FZero == [s |-> 0, m |-> <<>>, e |-> 0]

IsZero(x) == x.m = <<>>

\* the float nearest to (-1)^s * (M + f) * 2^e, where 0 <= f < 1 and
\* sticky <=> f > 0; when sticky holds M has more than Precision bits
FPack(s, q1, e) ==
    IF BBitLen(q1) > Precision
    THEN [s |-> s, m |-> BShr(q1, 1), e |-> e + 1]
    ELSE [s |-> s, m |-> q1, e |-> e]

\* round q = floor(M / 2^sh) up: the guard bit is set, and a bit below it
\* or the last bit of q is
FRoundsUp(M, sticky, sh, q) ==
    BBit(M, sh - 1) = 1 /\ (sticky \/ BLowNonZero(M, sh - 1) \/ BBit(q, 0) = 1)

FRoundShifted(s, M, e, sticky, sh, q) ==
    FPack(s, IF FRoundsUp(M, sticky, sh, q) THEN BAdd(q, <<1>>) ELSE q, e + sh)

FRoundOfLen(s, M, e, sticky, L) ==
    IF L = 0 THEN FZero
    ELSE IF L <= Precision
    THEN [s |-> s, m |-> BShl(M, Precision - L), e |-> e - (Precision - L)]
    ELSE FRoundShifted(s, M, e, sticky, L - Precision, BShr(M, L - Precision))

FRound(s, M, e, sticky) == FRoundOfLen(s, M, e, sticky, BBitLen(M))

\* int -> float (exact for the small integers of the model)
FFromInt(n) == FRound(IF n < 0 THEN 1 ELSE 0, BFromInt(IF n < 0 THEN -n ELSE n), 0, FALSE)

FNeg(x) == IF IsZero(x) THEN x ELSE [x EXCEPT !.s = 1 - x.s]

\* exact sum of (-1)^sa * A * 2^e and (-1)^sb * B * 2^e, rounded
FSumAligned(sa, A, sb, B, e) ==
    IF sa = sb THEN FRound(sa, BAdd(A, B), e, FALSE)
    ELSE IF BCmp(A, B) >= 0 THEN FRound(sa, BSub(A, B), e, FALSE)
    ELSE FRound(sb, BSub(B, A), e, FALSE)

FAdd(x, y) ==
    IF IsZero(x) THEN y
    ELSE IF IsZero(y) THEN x
    ELSE LET e == IF x.e < y.e THEN x.e ELSE y.e
         IN  FSumAligned(x.s, BShl(x.m, x.e - e), y.s, BShl(y.m, y.e - e), e)

FSub(x, y) == FAdd(x, FNeg(y))

FMul(x, y) ==
    IF IsZero(x) \/ IsZero(y) THEN FZero
    ELSE FRound((x.s + y.s) % 2, BMul(x.m, y.m), x.e + y.e, FALSE)

\* fused multiply-add: x * y + z with a single rounding
FFma(x, y, z) ==
    IF IsZero(x) \/ IsZero(y) THEN z
    ELSE IF IsZero(z) THEN FMul(x, y)
    ELSE LET pe == x.e + y.e
             e  == IF pe < z.e THEN pe ELSE z.e
         IN  FSumAligned((x.s + y.s) % 2, BShl(BMul(x.m, y.m), pe - e),
                         z.s, BShl(z.m, z.e - e), e)

\* x / y for y # 0
FDivRound(x, y, qr) ==
    FRound((x.s + y.s) % 2, qr[1], x.e - y.e - (Precision + 3), qr[2] # <<>>)

FDiv(x, y) ==
    IF IsZero(x) THEN FZero
    ELSE FDivRound(x, y, BDivMod(BShl(x.m, Precision + 3), y.m))

\* the integer part of |x| and whether |x| has a fractional part
IntPart(x) == IF x.e >= 0 THEN BToInt(BShl(x.m, x.e)) ELSE BToInt(BShr(x.m, -x.e))
HasFrac(x) == x.e < 0 /\ BLowNonZero(x.m, -x.e)

\* int(x): truncation toward zero
FTrunc(x) == IF x.s = 1 THEN -IntPart(x) ELSE IntPart(x)

\* ceil(x)
FCeil(x) ==
    IF x.s = 1 THEN -IntPart(x)
    ELSE IntPart(x) + (IF HasFrac(x) THEN 1 ELSE 0)

FSign(x) == IF IsZero(x) THEN 0 ELSE IF x.s = 1 THEN -1 ELSE 1

----------------------------------------------------------------------------
(* Inputs.  The decimal literals of the callers, as the binary64 numbers    *)
(* Python reads them as.                                                    *)

Lit_0_1  == [s |-> 0, m |-> <<6554,13107,26214,204>>, e |-> -56]
Lit_0_35 == [s |-> 0, m |-> <<26214,19660,6553,179>>, e |-> -54]
Lit_3_89 == [s |-> 0, m |-> <<1311,9175,31457,248>>, e |-> -51]
Lit_5_43 == [s |-> 0, m |-> <<7864,22282,24903,173>>, e |-> -50]
Half     == FDiv(FFromInt(1), FFromInt(2))
OneHalf  == FDiv(FFromInt(3), FFromInt(2))

\* the largest number of atoms of a point set
MaxAtoms == 2
\* the largest number of calls the caller makes
MaxCalls == 2
\* the caller asks intensity_at_q for the samples 0 .. MaxSample of its sweep
MaxSample == 1

\* one atom of crystal_py: [i * lattice_param, j * lattice_param, k * lattice_param]
Atom(lattice_param, i, j, k) ==
    <<FMul(FFromInt(i), lattice_param),
      FMul(FFromInt(j), lattice_param),
      FMul(FFromInt(k), lattice_param)>>

AtomSites ==
    {Atom(Lit_3_89, 0, 0, 0), Atom(Lit_3_89, 0, 1, 2), Atom(Lit_5_43, 0, 1, 2)}

Crystals == UNION {[1..n -> AtomSites] : n \in 0..MaxAtoms}

QStarts == {FFromInt(0), FFromInt(1)}
QEnds   == {FFromInt(0), Lit_0_35, OneHalf}
QSteps  == {FNeg(Half), FZero, Lit_0_1, Half}

----------------------------------------------------------------------------
(* Intensities.  A float64 that is a sum of sinc terms is the bag of its    *)
(* addends: One is the addend 1.0, Sinc(i, k) is sin(q*d)/(q*d) for the     *)
(* i-th sample q of the sweep and the distance d between the coordinates    *)
(* in k, a finite number other than 1.0, and NaN is the result of 0.0/0.0.  *)
(* A sum with a NaN addend is NaN.                                          *)

One == <<"one">>
NaN == <<"nan">>
Sinc(i, k) == <<"sinc", i, k>>

Zero == EmptyBag
NaNValue == SetToBag({NaN})
IsNaN(v) == BagIn(NaN, v)

\* v + t
Plus(v, t) == IF t = NaN \/ IsNaN(v) THEN NaNValue ELSE v (+) SetToBag({t})

\* the outcome of a call
Return(v) == [status |-> "ok", value |-> v]
Raise(exc) == [status |-> exc, value |-> <<>>]

\* a sample of a sweep: its index and its value
Sample(i, x) == [i |-> i, x |-> x]

----------------------------------------------------------------------------
(* crystal_python.py                                                        *)

\* np.linalg.norm(r_1 - r_2) == 0.0
NormIsZero(r_1, r_2) == \A k \in 1..3 : IsZero(FSub(r_1[k], r_2[k]))

\* the comparison for every pair of sites
NormIsZeroOfSites == [r_1 \in AtomSites |-> [r_2 \in AtomSites |-> NormIsZero(r_1, r_2)]]

intensity_point(q, r_1, r_2) ==
    IF NormIsZeroOfSites[r_1][r_2] THEN One
    ELSE IF IsZero(q.x) THEN NaN           \* np.sin(0.0) / 0.0
    ELSE Sinc(q.i, {r_1, r_2})

\* the loops of intensity_at_q from (i, j) on, in their order
RECURSIVE PairLoop(_, _, _, _, _)
PairLoop(mycrystal, q, i, j, intensity) ==
    IF i > Len(mycrystal) THEN intensity
    ELSE IF j > Len(mycrystal) THEN PairLoop(mycrystal, q, i + 1, 1, intensity)
    ELSE PairLoop(mycrystal, q, i, j + 1,
                  Plus(intensity, intensity_point(q, mycrystal[i], mycrystal[j])))

\* a variant of intensity_at_q that sums the pairs i <= j only
RECURSIVE PairLoopUpper(_, _, _, _, _)
PairLoopUpper(mycrystal, q, i, j, intensity) ==
    IF i > Len(mycrystal) THEN intensity
    ELSE IF j > Len(mycrystal) THEN PairLoopUpper(mycrystal, q, i + 1, i + 1, intensity)
    ELSE PairLoopUpper(mycrystal, q, i, j + 1,
                       Plus(intensity, intensity_point(q, mycrystal[i], mycrystal[j])))

intensity_at_q_upper(mycrystal, q) == PairLoopUpper(mycrystal, q, 1, 1, Zero)

intensity_at_q(mycrystal, q) == PairLoop(mycrystal, q, 1, 1, Zero)

\* n_points = int((q_f - q_0) / q_step), for q_step # 0
NPoints(q_0, q_f, q_step) == FTrunc(FDiv(FSub(q_f, q_0), q_step))

\* np.arange(start, stop, step) on floats: ceil((stop - start) / step)
\* values, the first two start and start + step, the others start + k * delta
ArangeLen(start, stop, step) ==
    LET len == FCeil(FDiv(FSub(stop, start), step))
    IN  IF len < 0 THEN 0 ELSE len

Arange(start, stop, step) ==
    LET next  == FAdd(start, step)
        delta == FSub(next, start)
    IN  [k \in 1..ArangeLen(start, stop, step) |->
            IF k = 1 THEN start
            ELSE IF k = 2 THEN next
            ELSE FAdd(start, FMul(FFromInt(k - 1), delta))]

\* np.zeros(n_points)
Zeros(n_points) == [k \in 1..n_points |-> Zero]

\* for i, q_i in enumerate(q): intensity[i] = intensity_at_q(mycrystal, float(q_i))
RECURSIVE SweepLoop(_, _, _, _)
SweepLoop(mycrystal, q, i, intensity) ==
    IF i > Len(q) THEN Return(intensity)
    ELSE IF i > Len(intensity) THEN Raise("IndexError")
    ELSE SweepLoop(mycrystal, q, i + 1,
                   [intensity EXCEPT ![i] = intensity_at_q(mycrystal, Sample(i - 1, q[i]))])

\* n_points and q depend on the parameters of the sweep only: their values
\* for every sweep of the callers with q_step # 0
DseGrid(q_0, q_f, q_step) ==
    LET n_points == NPoints(q_0, q_f, q_step)
    IN  [n_points |-> n_points,
         q |-> IF n_points < 0 THEN <<>>
               ELSE Arange(q_0, FAdd(q_0, FMul(FFromInt(n_points), q_step)), q_step)]

DseGridOfSweep ==
    [q_0 \in QStarts |-> [q_f \in QEnds |-> [q_step \in QSteps \ {FZero} |->
        DseGrid(q_0, q_f, q_step)]]]

dse(q_0, q_f, q_step, mycrystal) ==
    IF IsZero(q_step) THEN Raise("ZeroDivisionError")
    ELSE LET grid == DseGridOfSweep[q_0][q_f][q_step]
         IN  IF grid.n_points < 0 THEN Raise("ValueError")        \* np.zeros
             ELSE SweepLoop(mycrystal, grid.q, 1, Zeros(grid.n_points))

\* np.linspace(start, stop, num) for num >= 0
Linspace(start, stop, num) ==
    LET div   == FFromInt(IF num > 1 THEN num - 1 ELSE 1)
        delta == FSub(stop, start)
        step  == FDiv(delta, div)
    IN  [k \in 1..num |->
            IF num > 1 /\ k = num THEN stop
            ELSE IF IsZero(step)
                 THEN FAdd(FMul(FDiv(FFromInt(k - 1), div), delta), start)
                 ELSE FAdd(FMul(FFromInt(k - 1), step), start)]

\* np.asarray(crystal).ndim: a list of N >= 1 points and an array of shape
\* (N, 3) have two axes, the empty list has one
Ndim(crystal, ctype) == IF ctype = "list" /\ crystal = <<>> THEN 1 ELSE 2

\* np.einsum('ij,ij->i', crystal, crystal)[i]
SquaredNorm(r) == FAdd(FAdd(FMul(r[1], r[1]), FMul(r[2], r[2])), FMul(r[3], r[3]))

\* the kernels np.dot can be linked against
BlasKernels == {"separate", "fused"}

\* np.dot(crystal, crystal.T)[i][j]: the BLAS kernel either rounds every
\* product and every sum, or accumulates with fused multiply-adds
Dot(r_1, r_2, blas) ==
    IF blas = "fused"
    THEN FFma(r_1[3], r_2[3], FFma(r_1[2], r_2[2], FMul(r_1[1], r_2[1])))
    ELSE FAdd(FAdd(FMul(r_1[1], r_2[1]), FMul(r_1[2], r_2[2])), FMul(r_1[3], r_2[3]))

\* distances_sq[i][j] = r_sq[i] + r_sq[j] - 2 * dot[i][j], for the points
\* r_1 = crystal[i] and r_2 = crystal[j]
DistanceSq(r_1, r_2, blas) ==
    FSub(FAdd(SquaredNorm(r_1), SquaredNorm(r_2)),
         FMul(FFromInt(2), Dot(r_1, r_2, blas)))

\* np.maximum(x, 0.0)
Maximum0(x) == IF FSign(x) < 0 THEN FZero ELSE x

\* np.sqrt(x): the root of x >= 0, kept as the number it is the root of,
\* and NaN for x < 0
Sqrt(x) == IF FSign(x) < 0 THEN [nan |-> TRUE, sq |-> FZero] ELSE [nan |-> FALSE, sq |-> x]

\* an entry of distances is a function of its two points and of the kernel:
\* the entry for every pair of sites
DistanceOfSites ==
    [r_1 \in AtomSites |-> [r_2 \in AtomSites |-> [blas \in BlasKernels |->
        Sqrt(Maximum0(DistanceSq(r_1, r_2, blas)))]]]

Distances(crystal, blas) ==
    [i \in 1..Len(crystal) |-> [j \in 1..Len(crystal) |->
        DistanceOfSites[crystal[i]][crystal[j]][blas]]]

\* np.where(distances == 0.0, 1.0, np.sin(qd) / qd) at one q and one pair
SincWhere(q, d, r_1, r_2) ==
    IF d.nan THEN NaN
    ELSE IF IsZero(d.sq) THEN One
    ELSE IF IsZero(q.x) THEN NaN
    ELSE Sinc(q.i, {r_1, r_2})

\* a variant of SumPairs that sums the first row of the matrix only
RECURSIVE SumFirstRow(_, _, _, _, _)
SumFirstRow(crystal, distances, q, k, acc) ==
    IF k > Len(crystal) THEN acc
    ELSE SumFirstRow(crystal, distances, q, k + 1,
                     Plus(acc, SincWhere(q, distances[1][k], crystal[1], crystal[k])))

\* np.sum(intensity_matrix, axis=(1, 2)) at one q
RECURSIVE SumPairs(_, _, _, _, _)
SumPairs(crystal, distances, q, k, acc) ==
    LET n == Len(crystal)
        i == ((k - 1) \div n) + 1
        j == ((k - 1) % n) + 1
    IN  IF k > n * n THEN acc
        ELSE SumPairs(crystal, distances, q, k + 1,
                      Plus(acc, SincWhere(q, distances[i][j], crystal[i], crystal[j])))

\* n_points and q_values, likewise
UltraGrid(min_q, max_q, q_step) ==
    LET n_points == NPoints(min_q, max_q, q_step)
    IN  [n_points |-> n_points,
         q_values |-> IF n_points < 0 THEN <<>>
                      ELSE Linspace(min_q,
                                    FAdd(min_q, FMul(FFromInt(n_points - 1), q_step)),
                                    n_points)]

UltraGridOfSweep ==
    [min_q \in QStarts |-> [max_q \in QEnds |-> [q_step \in QSteps \ {FZero} |->
        UltraGrid(min_q, max_q, q_step)]]]

dse_ultra_optimized(min_q, max_q, q_step, crystal, ctype, blas) ==
    IF IsZero(q_step) THEN Raise("ZeroDivisionError")
    ELSE LET grid == UltraGridOfSweep[min_q][max_q][q_step]
         IN  IF grid.n_points < 0 THEN Raise("ValueError")        \* np.linspace
             ELSE IF Ndim(crystal, ctype) # 2 THEN Raise("ValueError")   \* np.einsum
             ELSE LET distances == Distances(crystal, blas)
                  IN  Return([k \in 1..grid.n_points |->
                                 SumPairs(crystal, distances,
                                          Sample(k - 1, grid.q_values[k]), 1, Zero)])

----------------------------------------------------------------------------
(* The caller: it holds a point set and the parameters of a sweep, calls    *)
(* the three functions in any order and keeps what they return.             *)

VARIABLES points, ptype, q_start, q_end, q_incr, kernel, results

vars == <<points, ptype, q_start, q_end, q_incr, kernel, results>>

inputs == <<points, ptype, q_start, q_end, q_incr, kernel>>

Init ==
    /\ points \in Crystals
    \* main.py passes lists; the empty point set is also an array of shape (0, 3)
    /\ ptype \in (IF points = <<>> THEN {"list", "ndarray"} ELSE {"list"})
    /\ q_start \in QStarts
    /\ q_end \in QEnds
    /\ q_incr \in QSteps
    /\ kernel \in BlasKernels
    /\ results = <<>>

\* the i-th sample of a sweep, q_0 + i * q_step
SampleAt(q_0, q_step, i) == Sample(i, FAdd(q_0, FMul(FFromInt(i), q_step)))

\* the samples the caller asks intensity_at_q for, for every sweep
CallerSamples ==
    [q_0 \in QStarts |-> [q_step \in QSteps |-> [i \in 0..MaxSample |->
        SampleAt(q_0, q_step, i)]]]

\* the i-th sample of the caller's sweep
SampleOf(i) ==
    IF i \in 0..MaxSample THEN CallerSamples[q_start][q_incr][i]
    ELSE SampleAt(q_start, q_incr, i)

Called(op, arg, out) == [op |-> op, arg |-> arg, out |-> out]

\* a variant of CallDse in which dse reverses the caller's list in place
CallDseReversing ==
    /\ Len(results) < MaxCalls
    /\ results' = Append(results, Called("dse", 0, dse(q_start, q_end, q_incr, points)))
    /\ points' = [k \in 1..Len(points) |-> points[Len(points) + 1 - k]]
    /\ UNCHANGED <<ptype, q_start, q_end, q_incr, kernel>>

CallDse ==
    /\ Len(results) < MaxCalls
    /\ results' = Append(results, Called("dse", 0, dse(q_start, q_end, q_incr, points)))
    /\ UNCHANGED inputs

CallDseUltraOptimized ==
    /\ Len(results) < MaxCalls
    /\ results' = Append(results,
           Called("dse_ultra_optimized", 0,
                  dse_ultra_optimized(q_start, q_end, q_incr, points, ptype, kernel)))
    /\ UNCHANGED inputs

CallIntensityAtQ ==
    /\ Len(results) < MaxCalls
    /\ \E i \in 0..MaxSample :
          results' = Append(results,
              Called("intensity_at_q", i, Return(intensity_at_q(points, SampleOf(i)))))
    /\ UNCHANGED inputs

Next == CallDse \/ CallDseUltraOptimized \/ CallIntensityAtQ

Spec == Init /\ [][Next]_vars

----------------------------------------------------------------------------
(* Vocabulary of the properties                                             *)

Held == {results[k] : k \in 1..Len(results)}

IsSweep(r) == r.op \in {"dse", "dse_ultra_optimized"}

Ok(r) == r.out.status = "ok"

\* q_end <= q_start, or q_step <= 0
InvalidRange == FSign(FSub(q_end, q_start)) <= 0 \/ FSign(q_incr) <= 0

ValidRange == ~InvalidRange

\* equality up to a floating-point tolerance: an addend sin(q*d)/(q*d) for
\* two points of equal coordinates, whose d is a rounding error, counts as 1.0
NearOne(t) == t[1] = "sinc" /\ Cardinality(t[3]) = 1

Approx(v) == BagOfAll(LAMBDA t : IF NearOne(t) THEN One ELSE t, v)

\* n times 1.0
Ones(n) == IF n = 0 THEN Zero ELSE [t \in {One} |-> n]

AllSame(mycrystal) == \A a, b \in 1..Len(mycrystal) : mycrystal[a] = mycrystal[b]

----------------------------------------------------------------------------
(* C1: a sweep over an invalid range (q_end <= q_start, or q_step <= 0)     *)
(* returns the empty sequence and does not raise.                           *)
C1_InvalidRangeYieldsEmpty ==
    \A r \in Held :
        IsSweep(r) /\ InvalidRange => Ok(r) /\ r.out.value = <<>>

(* C2: on the empty point set a valid sweep of M samples returns M values   *)
(* 0.0 in both strategies without raising, and intensity_at_q returns 0.0.  *)
C2_EmptyPointSetYieldsZeros ==
    \A r \in Held :
        points = <<>> =>
            /\ IsSweep(r) /\ ValidRange =>
                  /\ Ok(r)
                  /\ r.out.value = [k \in 1..NPoints(q_start, q_end, q_incr) |-> Zero]
            /\ r.op = "intensity_at_q" => Ok(r) /\ r.out.value = Zero

(* C3: on the same point set and sweep, dse and dse_ultra_optimized return  *)
(* sequences of the same length that agree sample by sample, up to the      *)
(* tolerance of floating-point summation.                                   *)
C3_StrategiesAgree ==
    \A r1, r2 \in Held :
        r1.op = "dse" /\ r2.op = "dse_ultra_optimized" =>
            /\ r1.out.status = r2.out.status
            /\ Len(r1.out.value) = Len(r2.out.value)
            /\ \A k \in 1..Len(r1.out.value) :
                  Approx(r1.out.value[k]) = Approx(r2.out.value[k])

(* C4: the sinc term is total: for every q, q = 0 included, and every       *)
(* distance no call raises on a division and no 0/0 reaches the output.     *)
C4_SincTotal ==
    \A r \in Held :
        Ok(r) =>
            IF IsSweep(r)
            THEN \A k \in 1..Len(r.out.value) : ~IsNaN(r.out.value[k])
            ELSE ~IsNaN(r.out.value)

(* C5: a sweep over a valid range returns exactly                           *)
(* M = floor((q_end - q_start) / q_step) values, the one at index i being   *)
(* intensity_at_q at q_start + i * q_step: every slot is written and no     *)
(* write falls outside 0 .. M-1.                                            *)
C5_SweepWritesEverySlot ==
    \A r \in Held :
        IsSweep(r) /\ ValidRange =>
            /\ Ok(r)
            /\ Len(r.out.value) = NPoints(q_start, q_end, q_incr)
            /\ \A k \in 1..Len(r.out.value) :
                  Approx(r.out.value[k]) = Approx(intensity_at_q(points, SampleOf(k - 1)))

(* C6: a point set of N >= 1 atoms that all have the same coordinates       *)
(* yields N * N at every q of the sweep, in both strategies.                *)
C6_CoincidentAtomsYieldNSquared ==
    \A r \in Held :
        IsSweep(r) /\ Ok(r) /\ AllSame(points) =>
            \A k \in 1..Len(r.out.value) :
                Approx(r.out.value[k]) = Ones(Len(points) * Len(points))

(* C7: intensity_at_q is the sum of the sinc term over all N * N ordered    *)
(* pairs (i, j): every pair is an addend exactly once, the self-pairs each  *)
(* add 1.0, and a pair of distinct atoms is counted as (i, j) and as        *)
(* (j, i); it is not the half sum over i <= j.                              *)
FullDoubleSum(mycrystal, q) ==
    LET pairs == (1..Len(mycrystal)) \X (1..Len(mycrystal))
        term(p) == intensity_point(q, mycrystal[p[1]], mycrystal[p[2]])
        terms == {term(p) : p \in pairs}
    IN  IF NaN \in terms THEN NaNValue
        ELSE [t \in terms |-> Cardinality({p \in pairs : term(p) = t})]

C7_FullOrderedDoubleSum ==
    \A r \in Held :
        r.op = "intensity_at_q" =>
            LET v == r.out.value
                n == Len(points)
            IN  /\ v = FullDoubleSum(points, SampleOf(r.arg))
                /\ ~IsNaN(v) =>
                      /\ BagCardinality(v) = n * n
                      /\ CopiesIn(One, v) >= n
                      /\ \A a, b \in 1..n :
                            points[a] # points[b] =>
                                CopiesIn(Sinc(r.arg, {points[a], points[b]}), v) >= 2

C7_Witness ==
    \E r \in Held :
        /\ r.op = "intensity_at_q"
        /\ Len(points) = 2
        /\ points[1] # points[2]
        /\ CopiesIn(One, r.out.value) = 2
        /\ CopiesIn(Sinc(r.arg, {points[1], points[2]}), r.out.value) = 2

(* C8: swapping the points at two positions of the point set leaves the     *)
(* outcome of every call unchanged, up to the order of summation.           *)
Swap(mycrystal, a, b) == [mycrystal EXCEPT ![a] = mycrystal[b], ![b] = mycrystal[a]]

Recall(r, mycrystal) ==
    IF r.op = "dse" THEN dse(q_start, q_end, q_incr, mycrystal)
    ELSE IF r.op = "dse_ultra_optimized"
    THEN dse_ultra_optimized(q_start, q_end, q_incr, mycrystal, ptype, kernel)
    ELSE Return(intensity_at_q(mycrystal, SampleOf(r.arg)))

C8_PermutationInvariant ==
    results # <<>> =>
        LET r == results[Len(results)]
        IN  \A a, b \in 1..Len(points) :
                a < b /\ points[a] # points[b] =>
                    Recall(r, Swap(points, a, b)) = r.out

C8_Witness ==
    /\ results # <<>>
    /\ Len(points) = 2
    /\ points[1] # points[2]
    /\ results[Len(results)].op = "dse_ultra_optimized"
    /\ Ok(results[Len(results)])
    /\ Len(results[Len(results)].out.value) >= 2

(* C9: the distance matrix of dse_ultra_optimized is N x N, every squared   *)
(* distance is clamped to >= 0 before the root, so every entry is a defined *)
(* non-negative number, entry (i, j) equals entry (j, i), and every         *)
(* diagonal entry is 0.                                                     *)
C9_DistanceMatrix ==
    \A r \in Held :
        r.op = "dse_ultra_optimized" /\ Ok(r) =>
            LET d == Distances(points, kernel)
                n == Len(points)
            IN  /\ DOMAIN d = 1..n
                /\ \A i, j \in 1..n :
                      /\ DOMAIN d[i] = 1..n
                      /\ ~d[i][j].nan
                      /\ FSign(d[i][j].sq) >= 0
                      /\ d[i][j] = d[j][i]
                /\ \A i \in 1..n : IsZero(d[i][i].sq)

====
